---- MODULE Spec2Model ----
(***************************************************************************)
(* A model of dvclive/plots/sklearn.py: the SKLearnPlot adapter family     *)
(* (Roc, PrecisionRecall, Det, ConfusionMatrix, Calibration).              *)
(*                                                                         *)
(* Strings are sequences of one-character strings, so that str.replace,   *)
(* string concatenation and pathlib's parsing are computed, not assumed.   *)
(* Paths are records [root, parts] as pathlib keeps them.  The filesystem  *)
(* is a set of directories and a map from file paths to contents, both     *)
(* keyed by resolved paths.                                                *)
(***************************************************************************)
EXTENDS Integers, Sequences, FiniteSets, TLC

VARIABLES
    arg,            \* the value handed to could_log
    logged,         \* could_log's outcome: "pending", "True", "False", "TypeError"
    pc,             \* per adapter: where its caller stands
    variant,        \* per adapter: its class
    ctor,           \* per adapter: the constructor's arguments
    name,           \* per adapter: self.name
    output_folder,  \* per adapter: self.output_folder
    normalized,     \* per adapter: self.normalized (ConfusionMatrix)
    val,            \* per adapter: dump's val
    kwargs,         \* per adapter: dump's **kwargs
    ret,            \* per adapter: what the external routine does on this call
    records,        \* per adapter: the local built by dump (roc, prc, det, cm, _calibration)
    path,           \* per adapter: the _path output_path returned
    err,            \* per adapter: the exception that reached the caller
    dirs,           \* filesystem: the directories that exist
    files,          \* filesystem: file path -> content
    pre,            \* the filesystem when the dump calls began
    lastWriter,     \* file path -> the adapter whose write completed last
    mkdirs,         \* per adapter: directory-creation steps of its dump
    writes,         \* per adapter: file writes of its dump
    defaults,       \* per class: its DEFAULT_PROPERTIES dictionary object
    heap,           \* the dictionary objects get_properties created, by address
    held,           \* per adapter: addresses get_properties returned to its caller
    lastProps,      \* per adapter: the value the last get_properties call returned
    nmut            \* mutations callers have made to dictionaries they hold

logVars  == <<arg, logged>>
selfVars == <<variant, ctor, name, output_folder, normalized>>
callVars == <<val, kwargs, ret, records, path, err>>
fsVars   == <<dirs, files, pre, lastWriter, mkdirs, writes>>
propVars == <<defaults, heap, held, lastProps, nmut>>
vars     == <<logVars, pc, selfVars, callVars, fsVars, propVars>>

----------------------------------------------------------------------------
(* Bounds *)

MaxItems == 3
MaxNameLen == 3
MaxLen == 2
MaxLabels == 2
MaxGets == 2
MaxMutations == 2

----------------------------------------------------------------------------
(* Generic helpers *)

\* all sequences over S of length 0..n
SeqsUpTo(S, n) == UNION {[1..k -> S] : k \in 0..n}

Min(a, b) == IF a <= b THEN a ELSE b

Callers == {"A", "B"}

----------------------------------------------------------------------------
(* SKLearnPlot.could_log *)

\* Python values by type; the sized types carry their items
SizedTypes == {"tuple", "list", "dict", "set", "str"}
UnsizedTypes == {"int", "float", "NoneType"}
Items == {0, 1}
PyValues ==
    {[type |-> t, items |-> s] : t \in SizedTypes, s \in SeqsUpTo(Items, MaxItems)}
    \cup {[type |-> t, items |-> << >>] : t \in UnsizedTypes}

\* isinstance(v, cls) for the built-in types drawn here (none subclasses another)
isinstance(v, cls) == v.type = cls

\* whether len(v) is defined; len() of an object without __len__ raises TypeError
HasLen(v) == v.type \in SizedTypes
len(v) == Len(v.items)

\* could_log without the isinstance test: `len(val) == 2` alone
could_log_any_sized(v) ==
    IF ~HasLen(v) THEN "TypeError"
    ELSE IF len(v) = 2 THEN "True" ELSE "False"

\* `isinstance(val, tuple) and len(val) == 2`: `and` evaluates len only for a tuple
could_log(v) ==
    IF ~isinstance(v, "tuple") THEN "False"
    ELSE IF ~HasLen(v) THEN "TypeError"
    ELSE IF len(v) = 2 THEN "True" ELSE "False"

\* the dispatcher asks whether the value qualifies
CouldLog ==
    /\ logged = "pending"
    /\ logged' = could_log(arg)
    /\ UNCHANGED <<arg, pc, selfVars, callVars, fsVars, propVars>>

----------------------------------------------------------------------------
(* Strings and pathlib paths *)

JsonSuffix == <<".", "j", "s", "o", "n">>
subfolder == <<"s", "k", "l", "e", "a", "r", "n">>

\* str.replace(old, new): every non-overlapping occurrence, scanning from the left
RECURSIVE Replace(_, _, _)
Replace(s, old, new) ==
    IF Len(s) < Len(old) THEN s
    ELSE IF SubSeq(s, 1, Len(old)) = old
         THEN new \o Replace(SubSeq(s, Len(old) + 1, Len(s)), old, new)
         ELSE <<Head(s)>> \o Replace(Tail(s), old, new)

\* s.split("/")
RECURSIVE Split(_)
Split(s) ==
    IF s = << >> THEN << << >> >>
    ELSE LET rest == Split(Tail(s)) IN
         IF Head(s) = "/" THEN << << >> >> \o rest
         ELSE << <<Head(s)>> \o Head(rest) >> \o Tail(rest)

LeadingSlashes(s) ==
    IF s = << >> \/ Head(s) # "/" THEN 0
    ELSE IF Len(s) = 1 \/ s[2] # "/" THEN 1
    ELSE IF Len(s) = 2 \/ s[3] # "/" THEN 2 ELSE 3

\* Path(s) on POSIX: the root ("", "/", or "//" for exactly two leading
\* slashes) and the components, empty and "." components dropped
Path(s) ==
    [root  |-> IF LeadingSlashes(s) = 0 THEN << >>
               ELSE IF LeadingSlashes(s) = 2 THEN <<"/", "/">> ELSE <<"/">>,
     parts |-> SelectSeq(Split(s), LAMBDA c : c # << >> /\ c # <<".">>)]

RECURSIVE JoinParts(_)
JoinParts(ps) ==
    IF ps = << >> THEN << >>
    ELSE IF Len(ps) = 1 THEN Head(ps)
    ELSE Head(ps) \o <<"/">> \o JoinParts(Tail(ps))

\* str(p)
PathStr(p) ==
    IF p.root = << >> /\ p.parts = << >> THEN <<".">>
    ELSE p.root \o JoinParts(p.parts)

\* p / s: an absolute right operand replaces the left one
TrueDiv(p, s) ==
    LET q == Path(s) IN
    IF q.root # << >> THEN q ELSE [root |-> p.root, parts |-> p.parts \o q.parts]

\* p.parent
Parent(p) ==
    IF p.parts = << >> THEN p
    ELSE [p EXCEPT !.parts = SubSeq(p.parts, 1, Len(p.parts) - 1)]

\* the directory or file a path names once ".." components are followed
RECURSIVE ResolveParts(_, _, _)
ResolveParts(rooted, todo, acc) ==
    IF todo = << >> THEN acc
    ELSE IF Head(todo) # <<".", ".">>
         THEN ResolveParts(rooted, Tail(todo), Append(acc, Head(todo)))
    ELSE IF acc # << >> /\ acc[Len(acc)] # <<".", ".">>
         THEN ResolveParts(rooted, Tail(todo), SubSeq(acc, 1, Len(acc) - 1))
    ELSE IF rooted THEN ResolveParts(rooted, Tail(todo), acc)
    ELSE ResolveParts(rooted, Tail(todo), Append(acc, Head(todo)))

Resolve(p) == [p EXCEPT !.parts = ResolveParts(p.root # << >>, p.parts, << >>)]

\* p and its ancestors that have at least one component, outermost first
Chain(p) == [i \in 1..Len(p.parts) |-> [p EXCEPT !.parts = SubSeq(p.parts, 1, i)]]

\* whether q lies strictly below the directory p
Under(q, p) ==
    LET a == Resolve(p).parts
        b == Resolve(q).parts
    IN  /\ Resolve(q).root = Resolve(p).root
        /\ Len(b) > Len(a)
        /\ SubSeq(b, 1, Len(a)) = a

----------------------------------------------------------------------------
(* Construction *)

Variants == {"Roc", "PrecisionRecall", "Det", "ConfusionMatrix", "Calibration"}
Curves == Variants \ {"ConfusionMatrix"}

\* a keyword dictionary is a set of <<key, value>> pairs; d.get(k) is None without k
Get(d, k) == IF \E kv \in d : kv[1] = k THEN (CHOOSE kv \in d : kv[1] = k)[2] ELSE "None"

\* Python truth of the values drawn for flags, and `a or b`
Truthy(x) == x = "True"
Or(a, b) == IF Truthy(a) THEN a ELSE b

\* Data.__init__(name, output_folder): keeps the name and places the family's
\* subfolder under the output root
Data_init(n, folder) ==
    [name |-> n, output_folder |-> TrueDiv(Path(folder), subfolder)]

\* SKLearnPlot.__init__: super().__init__, then self.name.replace(".json", "")
SKLearnPlot_init(n, folder) ==
    LET d == Data_init(n, folder)
    IN  [d EXCEPT !.name = Replace(d.name, JsonSuffix, << >>)]

\* ConfusionMatrix.__init__ reading the flag as always off
ConfusionMatrix_normalized_off(kw) == "False"

\* ConfusionMatrix.__init__: kwargs.get("normalized") or False
ConfusionMatrix_normalized(kw) == Or(Get(kw, "normalized"), "False")

Construct(c) ==
    /\ pc[c] = "new"
    /\ LET self == SKLearnPlot_init(ctor[c].name, ctor[c].output_folder) IN
        /\ name' = [name EXCEPT ![c] = self.name]
        /\ output_folder' = [output_folder EXCEPT ![c] = self.output_folder]
    /\ normalized' = [normalized EXCEPT ![c] =
            IF variant[c] = "ConfusionMatrix"
            THEN ConfusionMatrix_normalized(ctor[c].kwargs) ELSE "unset"]
    /\ pc' = [pc EXCEPT ![c] = "ready"]
    /\ UNCHANGED <<logVars, variant, ctor, callVars, fsVars, propVars>>

----------------------------------------------------------------------------
(* dump *)

Values == {0, 1}
Arrays(n) == [1..n -> Values]

\* What the external routine can return: roc_curve, det_curve three arrays of
\* one length; precision_recall_curve precision and recall one element longer
\* than thresholds; calibration_curve two arrays of one length.
RoutineReturns(v) ==
    CASE v \in {"Roc", "Det"} ->
            UNION {{<<a, b, t>> : a \in Arrays(n), b \in Arrays(n), t \in Arrays(n)}
                   : n \in 0..MaxLen}
      [] v = "PrecisionRecall" ->
            UNION {{<<a, b, t>> : a \in Arrays(n + 1), b \in Arrays(n + 1), t \in Arrays(n)}
                   : n \in 0..MaxLen}
      [] v = "Calibration" ->
            UNION {{<<a, b>> : a \in Arrays(n), b \in Arrays(n)} : n \in 0..MaxLen}

RoutineErrors == {"ValueError", "TypeError"}

\* the built-in zip: as many tuples as the shortest argument has elements
Zip2(a, b) == [i \in 1..Min(Len(a), Len(b)) |-> <<a[i], b[i]>>]
Zip3(a, b, c) == [i \in 1..Min(Len(a), Min(Len(b), Len(c))) |-> <<a[i], b[i], c[i]>>]

\* a Python dict or list on its way to dump_json
Dict(members) == [py |-> "dict", members |-> members]
List(items) == [py |-> "list", items |-> items]

\* str(x): a string is itself, an int its decimal digits
Str(x) == IF x[1] = "int" THEN ToString(x[2]) ELSE x[2]

\* Roc.dump's records without the threshold field
Roc_roc_no_threshold(r) ==
    LET z == Zip3(r[1], r[2], r[3])
    IN  Dict([roc |-> [i \in DOMAIN z |-> [fpr |-> z[i][1], tpr |-> z[i][2]]]])

\* Roc.dump: {"roc": [{"fpr": fp, "tpr": tp, "threshold": t} for ... in zip(...)]}
Roc_roc(r) ==
    LET z == Zip3(r[1], r[2], r[3])
    IN  Dict([roc |-> [i \in DOMAIN z |->
                [fpr |-> z[i][1], tpr |-> z[i][2], threshold |-> z[i][3]]]])

\* PrecisionRecall.dump: {"precision_recall": [{"precision", "recall", "threshold"}]}
PrecisionRecall_prc(r) ==
    LET z == Zip3(r[1], r[2], r[3])
    IN  Dict([precision_recall |-> [i \in DOMAIN z |->
                [precision |-> z[i][1], recall |-> z[i][2], threshold |-> z[i][3]]]])

\* Det.dump: {"det": [{"fpr", "fnr", "threshold"}]}
Det_det(r) ==
    LET z == Zip3(r[1], r[2], r[3])
    IN  Dict([det |-> [i \in DOMAIN z |->
                [fpr |-> z[i][1], fnr |-> z[i][2], threshold |-> z[i][3]]]])

\* Calibration.dump pairing each element with its successor's prob_pred
Calibration_calibration_shifted(r) ==
    LET z == Zip2(r[1], SubSeq(r[2], 2, Len(r[2])))
    IN  Dict([calibration |-> [i \in DOMAIN z |->
                [prob_true |-> z[i][1], prob_pred |-> z[i][2]]]])

\* Calibration.dump: {"calibration": [{"prob_true", "prob_pred"}]}
Calibration_calibration(r) ==
    LET z == Zip2(r[1], r[2])
    IN  Dict([calibration |-> [i \in DOMAIN z |->
                [prob_true |-> z[i][1], prob_pred |-> z[i][2]]]])

\* ConfusionMatrix.dump with the two labels exchanged
ConfusionMatrix_cm_swapped(v, kw) ==
    LET z == Zip2(v[1], v[2])
    IN  List([i \in DOMAIN z |-> [actual |-> Str(z[i][2]), predicted |-> Str(z[i][1])]])

\* ConfusionMatrix.dump: [{"actual": str(actual), "predicted": str(predicted)}
\* for actual, predicted in zip(val[0], val[1])]; kwargs is not read
ConfusionMatrix_cm(v, kw) ==
    LET z == Zip2(v[1], v[2])
    IN  List([i \in DOMAIN z |-> [actual |-> Str(z[i][1]), predicted |-> Str(z[i][2])]])

CurveRecords(v, r) ==
    CASE v = "Roc" -> Roc_roc(r)
      [] v = "PrecisionRecall" -> PrecisionRecall_prc(r)
      [] v = "Det" -> Det_det(r)
      [] v = "Calibration" -> Calibration_calibration(r)

\* the external routine returns and dump builds its records
CallRoutine(c) ==
    /\ pc[c] = "ready"
    /\ variant[c] \in Curves
    /\ ret[c].kind = "return"
    /\ records' = [records EXCEPT ![c] = CurveRecords(variant[c], ret[c].arrays)]
    /\ pc' = [pc EXCEPT ![c] = "built"]
    /\ UNCHANGED <<logVars, selfVars, val, kwargs, ret, path, err, fsVars, propVars>>

\* dump resolving self.output_path before it calls the routine
RoutineRaises_path_first(c) ==
    /\ pc[c] = "ready"
    /\ variant[c] \in Curves
    /\ ret[c].kind = "raise"
    /\ dirs' = dirs \cup {Resolve(output_folder[c])}
    /\ mkdirs' = [mkdirs EXCEPT ![c] = @ + 1]
    /\ err' = [err EXCEPT ![c] = ret[c].error]
    /\ pc' = [pc EXCEPT ![c] = "raised"]
    /\ UNCHANGED <<logVars, selfVars, val, kwargs, ret, records, path>>
    /\ UNCHANGED <<files, pre, lastWriter, writes, propVars>>

\* the external routine raises: nothing in dump catches it
RoutineRaises(c) ==
    /\ pc[c] = "ready"
    /\ variant[c] \in Curves
    /\ ret[c].kind = "raise"
    /\ err' = [err EXCEPT ![c] = ret[c].error]
    /\ pc' = [pc EXCEPT ![c] = "raised"]
    /\ UNCHANGED <<logVars, selfVars, val, kwargs, ret, records, path, fsVars, propVars>>

\* ConfusionMatrix.dump pairs the labels itself
PairLabels(c) ==
    /\ pc[c] = "ready"
    /\ variant[c] = "ConfusionMatrix"
    /\ records' = [records EXCEPT ![c] = ConfusionMatrix_cm(val[c], kwargs[c])]
    /\ pc' = [pc EXCEPT ![c] = "built"]
    /\ UNCHANGED <<logVars, selfVars, val, kwargs, ret, path, err, fsVars, propVars>>

\* SKLearnPlot.output_path: Path(f"{self.output_folder / self.name}.json")
output_path(folder, n) == Path(PathStr(TrueDiv(folder, n)) \o JsonSuffix)

\* whether a directory exists: the starting directory, the root and what lies
\* above them always do
IsDir(d, ds) ==
    LET r == Resolve(d)
    IN  (\A i \in DOMAIN r.parts : r.parts[i] = <<".", ".">>) \/ r \in ds

\* d.mkdir(exist_ok=True, parents=True): d and its missing ancestors are made,
\* outermost first, until a name on the way is a file
mkdir(d, ds, fs) ==
    LET chain == Chain(d)
        bad == {i \in DOMAIN chain : Resolve(chain[i]) \in DOMAIN fs}
        stop == IF bad = {} THEN Len(chain) + 1
                ELSE CHOOSE i \in bad : \A j \in bad : i <= j
    IN  [dirs  |-> ds \cup {Resolve(chain[i]) : i \in 1..(stop - 1)},
         error |-> IF bad = {} THEN "none"
                   ELSE IF stop = Len(chain) THEN "FileExistsError"
                   ELSE "NotADirectoryError"]

\* self.output_path is evaluated: the parent directory is made, _path returned
OutputPath(c) ==
    /\ pc[c] = "built"
    /\ LET _path == output_path(output_folder[c], name[c])
           m == mkdir(Parent(_path), dirs, files)
       IN  /\ dirs' = m.dirs
           /\ IF m.error = "none"
              THEN /\ path' = [path EXCEPT ![c] = _path]
                   /\ pc' = [pc EXCEPT ![c] = "resolved"]
                   /\ err' = err
              ELSE /\ path' = path
                   /\ pc' = [pc EXCEPT ![c] = "raised"]
                   /\ err' = [err EXCEPT ![c] = m.error]
    /\ mkdirs' = [mkdirs EXCEPT ![c] = @ + 1]
    /\ UNCHANGED <<logVars, selfVars, val, kwargs, ret, records>>
    /\ UNCHANGED <<files, pre, lastWriter, writes, propVars>>

\* the JSON document of a Python dict or list
Json(content) ==
    IF content.py = "dict" THEN [json |-> "object", members |-> content.members]
    ELSE [json |-> "array", items |-> content.items]

\* dump_json(content, path) keeping what the file held before the new document
dump_json_append(content, p, ds, fs) ==
    [files |-> (Resolve(p) :> IF Resolve(p) \in DOMAIN fs
                              THEN [json |-> "two documents",
                                    first |-> fs[Resolve(p)], second |-> Json(content)]
                              ELSE Json(content)) @@ fs,
     error |-> "none"]

\* dump_json(content, path): one write of the whole file, replacing what it held
dump_json(content, p, ds, fs) ==
    IF Resolve(p) \in ds THEN [files |-> fs, error |-> "IsADirectoryError"]
    ELSE IF ~IsDir(Parent(p), ds) THEN [files |-> fs, error |-> "FileNotFoundError"]
    ELSE [files |-> (Resolve(p) :> Json(content)) @@ fs, error |-> "none"]

\* the last statement of every dump: dump_json(<records>, <_path>)
DumpJson(c) ==
    /\ pc[c] = "resolved"
    /\ LET w == dump_json(records[c], path[c], dirs, files)
       IN  /\ files' = w.files
           /\ IF w.error = "none"
              THEN /\ pc' = [pc EXCEPT ![c] = "done"]
                   /\ lastWriter' = (Resolve(path[c]) :> c) @@ lastWriter
                   /\ writes' = [writes EXCEPT ![c] = @ + 1]
                   /\ err' = err
              ELSE /\ pc' = [pc EXCEPT ![c] = "raised"]
                   /\ err' = [err EXCEPT ![c] = w.error]
                   /\ UNCHANGED <<lastWriter, writes>>
    /\ UNCHANGED <<logVars, selfVars, val, kwargs, ret, records, path>>
    /\ UNCHANGED <<dirs, pre, mkdirs, propVars>>

----------------------------------------------------------------------------
(* get_properties *)

Roc_DEFAULT_PROPERTIES ==
    [template |-> "simple", x |-> "fpr", y |-> "tpr",
     title |-> "Receiver operating characteristic (ROC)",
     x_label |-> "False Positive Rate", y_label |-> "True Positive Rate"]

PrecisionRecall_DEFAULT_PROPERTIES ==
    [template |-> "simple", x |-> "recall", y |-> "precision",
     title |-> "Precision-Recall Curve",
     x_label |-> "Recall", y_label |-> "Precision"]

Det_DEFAULT_PROPERTIES ==
    [template |-> "simple", x |-> "fpr", y |-> "fnr",
     title |-> "Detection error tradeoff (DET)",
     x_label |-> "False Positive Rate", y_label |-> "False Negative Rate"]

ConfusionMatrix_DEFAULT_PROPERTIES ==
    [template |-> "confusion", x |-> "actual", y |-> "predicted",
     title |-> "Confusion Matrix",
     x_label |-> "True Label", y_label |-> "Predicted Label"]

Calibration_DEFAULT_PROPERTIES ==
    [template |-> "simple", x |-> "prob_pred", y |-> "prob_true",
     title |-> "Calibration Curve",
     x_label |-> "Mean Predicted Probability", y_label |-> "Fraction of Positives"]

\* the class attributes as the class statements leave them
DEFAULT_PROPERTIES ==
    [v \in Variants |->
        CASE v = "Roc" -> Roc_DEFAULT_PROPERTIES
          [] v = "PrecisionRecall" -> PrecisionRecall_DEFAULT_PROPERTIES
          [] v = "Det" -> Det_DEFAULT_PROPERTIES
          [] v = "ConfusionMatrix" -> ConfusionMatrix_DEFAULT_PROPERTIES
          [] v = "Calibration" -> Calibration_DEFAULT_PROPERTIES]

\* a reference is <<"class", variant>> (the class attribute itself) or
\* <<"obj", address>> (an object on the heap)
Deref(r, cls, hp) == IF r[1] = "class" THEN cls[r[2]] ELSE hp[r[2]]

\* the class dictionaries and the heap after `r[k] = x`
SetItem(r, k, x, cls, hp) ==
    LET d == Deref(r, cls, hp)
        e == [j \in DOMAIN d \cup {k} |-> IF j = k THEN x ELSE d[j]]
    IN  IF r[1] = "class"
        THEN [cls |-> [cls EXCEPT ![r[2]] = e], heap |-> hp]
        ELSE [cls |-> cls, heap |-> [hp EXCEPT ![r[2]] = e]]

\* the class dictionaries and the heap after `del r[k]`
DelItem(r, k, cls, hp) ==
    LET d == Deref(r, cls, hp)
        e == [j \in DOMAIN d \ {k} |-> d[j]]
    IN  IF r[1] = "class"
        THEN [cls |-> [cls EXCEPT ![r[2]] = e], heap |-> hp]
        ELSE [cls |-> cls, heap |-> [hp EXCEPT ![r[2]] = e]]

\* get_properties handing out the class attribute itself, without the copy
get_properties_shared(v, norm, cls, hp) ==
    LET r == <<"class", v>>
    IN  IF v = "ConfusionMatrix" /\ Truthy(norm)
        THEN SetItem(r, "template", "confusion_normalized", cls, hp) @@ [ref |-> r]
        ELSE [cls |-> cls, heap |-> hp, ref |-> r]

\* get_properties: copy.deepcopy(self.DEFAULT_PROPERTIES) is a new object with
\* the class attribute's items; ConfusionMatrix then sets the copy's template
\* when self.normalized is true
get_properties(v, norm, cls, hp) ==
    LET r == <<"obj", Len(hp) + 1>>
        copied == Append(hp, cls[v])
    IN  IF v = "ConfusionMatrix" /\ Truthy(norm)
        THEN SetItem(r, "template", "confusion_normalized", cls, copied) @@ [ref |-> r]
        ELSE [cls |-> cls, heap |-> copied, ref |-> r]

\* a caller asks the adapter for its properties and keeps the reference
GetProperties(c) ==
    /\ pc[c] = "ready"
    /\ Len(heap) < MaxGets /\ Len(held[c]) < MaxGets
    /\ LET g == get_properties(variant[c], normalized[c], defaults, heap)
       IN  /\ defaults' = g.cls
           /\ heap' = g.heap
           /\ held' = [held EXCEPT ![c] = Append(@, g.ref)]
           /\ lastProps' = [lastProps EXCEPT ![c] = <<Deref(g.ref, g.cls, g.heap)>>]
    /\ UNCHANGED <<logVars, pc, selfVars, callVars, fsVars, nmut>>

\* a caller assigns an item in a dictionary it was given
MutateSet(c) ==
    /\ nmut < MaxMutations
    /\ \E i \in DOMAIN held[c], k \in {"template", "extra"} :
         LET m == SetItem(held[c][i], k, "changed", defaults, heap)
         IN  defaults' = m.cls /\ heap' = m.heap
    /\ nmut' = nmut + 1
    /\ UNCHANGED <<logVars, pc, selfVars, callVars, fsVars, held, lastProps>>

\* a caller deletes an item from a dictionary it was given
MutateDel(c) ==
    /\ nmut < MaxMutations
    /\ \E i \in DOMAIN held[c] :
         \E k \in DOMAIN Deref(held[c][i], defaults, heap) \cap {"template", "x"} :
            LET m == DelItem(held[c][i], k, defaults, heap)
            IN  defaults' = m.cls /\ heap' = m.heap
    /\ nmut' = nmut + 1
    /\ UNCHANGED <<logVars, pc, selfVars, callVars, fsVars, held, lastProps>>

----------------------------------------------------------------------------
(* Initial states *)

NoFiles == [q \in {} |-> q]
NoPath == Path(<< >>)
OldDocument == [json |-> "object", members |-> [old |-> << >>]]

LogOff ==
    /\ arg = [type |-> "NoneType", items |-> << >>]
    /\ logged = "off"

PropsInit ==
    /\ defaults = DEFAULT_PROPERTIES
    /\ heap = << >>
    /\ held = [c \in Callers |-> << >>]
    /\ lastProps = [c \in Callers |-> << >>]
    /\ nmut = 0

FsInit(fs0) ==
    /\ dirs = fs0.dirs
    /\ files = fs0.files
    /\ pre = fs0
    /\ lastWriter = NoFiles
    /\ mkdirs = [c \in Callers |-> 0]
    /\ writes = [c \in Callers |-> 0]

\* the adapters before their constructors run; a[c] holds c's class, its
\* constructor arguments and the dump call its caller will make
AdaptersInit(active, a) ==
    /\ pc = [c \in Callers |-> IF c \in active THEN "new" ELSE "off"]
    /\ variant = [c \in Callers |-> a[c].variant]
    /\ ctor = [c \in Callers |-> a[c].ctor]
    /\ name = [c \in Callers |-> << >>]
    /\ output_folder = [c \in Callers |-> NoPath]
    /\ normalized = [c \in Callers |-> "unset"]
    /\ val = [c \in Callers |-> a[c].val]
    /\ kwargs = [c \in Callers |-> a[c].kwargs]
    /\ ret = [c \in Callers |-> a[c].ret]
    /\ records = [c \in Callers |-> List(<< >>)]
    /\ path = [c \in Callers |-> NoPath]
    /\ err = [c \in Callers |-> "none"]

Folder == <<"o">>
PlainName == <<"a">>

\* the filesystems a dump may start in: nothing there, the output root there,
\* the subfolder there, an earlier output file there, a file where the
\* subfolder should go
Filesystems ==
    LET root == Path(Folder)
        sub == TrueDiv(root, subfolder)
        out == output_path(sub, PlainName)
    IN  {[dirs |-> {}, files |-> NoFiles],
         [dirs |-> {root}, files |-> NoFiles],
         [dirs |-> {root, sub}, files |-> NoFiles],
         [dirs |-> {root, sub}, files |-> (out :> OldDocument)],
         [dirs |-> {root}, files |-> (sub :> OldDocument)]}

Returned(r) == [kind |-> "return", arrays |-> r]
Raised(e) == [kind |-> "raise", error |-> e]
NoRoutine == [kind |-> "none"]

\* true labels and scores (in hundredths) for the curve variants
CurveVal == << <<0, 0, 1, 1>>, <<10, 40, 35, 80>> >>

Labels == {<<"int", 1>>, <<"str", "1">>, <<"str", "cat">>}
LabelVals ==
    {<<a, b>> : a \in SeqsUpTo(Labels, MaxLabels), b \in SeqsUpTo(Labels, MaxLabels)}

DumpKwargs == {{}, {<<"pos_label", 1>>}}
CtorKwargs == {{}, {<<"normalized", "True">>}, {<<"normalized", "False">>}}

Adapter(v, n, ckw, vl, kw, rt) ==
    [variant |-> v,
     ctor |-> [name |-> n, output_folder |-> Folder, kwargs |-> ckw],
     val |-> vl, kwargs |-> kw, ret |-> rt]

Absent == Adapter("Roc", << >>, {}, << << >>, << >> >>, {}, NoRoutine)

Only(a) == [c \in Callers |-> IF c = "A" THEN a ELSE Absent]

\* could_log on every value drawn
InitCouldLog ==
    /\ arg \in PyValues
    /\ logged = "pending"
    /\ AdaptersInit({}, [c \in Callers |-> Absent])
    /\ FsInit([dirs |-> {}, files |-> NoFiles])
    /\ PropsInit

\* names over "/", "." and a letter, with ".json" at most once, anywhere
NameAlphabet == {"/", ".", "a"}
Names ==
    {p \o x \o q : <<p, q>> \in {pq \in SeqsUpTo(NameAlphabet, MaxNameLen)
                                        \X SeqsUpTo(NameAlphabet, MaxNameLen) :
                                     Len(pq[1]) + Len(pq[2]) <= MaxNameLen},
                   x \in {<< >>, JsonSuffix}}

SampleReturn(v) ==
    CASE v \in {"Roc", "Det"} -> Returned(<< <<0, 1>>, <<0, 1>>, <<1, 0>> >>)
      [] v = "PrecisionRecall" -> Returned(<< <<1, 0, 1>>, <<1, 0, 0>>, <<0, 1>> >>)
      [] v = "Calibration" -> Returned(<< <<0, 1>>, <<1, 1>> >>)
      [] v = "ConfusionMatrix" -> NoRoutine

SampleVal(v) ==
    IF v = "ConfusionMatrix"
    THEN << << <<"str", "cat">>, <<"str", "dog">> >>, << <<"str", "cat">>, <<"str", "cat">> >> >>
    ELSE CurveVal

\* one adapter of any class under any name, one dump
InitPath ==
    /\ LogOff
    /\ \E v \in Variants, n \in Names :
         AdaptersInit({"A"}, Only(Adapter(v, n, {}, SampleVal(v), {}, SampleReturn(v))))
    /\ \E fs0 \in Filesystems : FsInit(fs0)
    /\ PropsInit

\* one curve adapter, one dump, the routine returning or raising anything it can
InitCurve ==
    /\ LogOff
    /\ \E v \in Curves, kw \in DumpKwargs :
         \E rt \in {Returned(r) : r \in RoutineReturns(v)}
                    \cup {Raised(e) : e \in RoutineErrors} :
            AdaptersInit({"A"}, Only(Adapter(v, PlainName, {}, CurveVal, kw, rt)))
    /\ \E fs0 \in Filesystems : FsInit(fs0)
    /\ PropsInit

\* one ConfusionMatrix adapter, one dump of any pair of label sequences
InitConfusion ==
    /\ LogOff
    /\ \E vl \in LabelVals, kw \in DumpKwargs :
         AdaptersInit({"A"},
             Only(Adapter("ConfusionMatrix", PlainName, {}, vl, kw, NoRoutine)))
    /\ \E fs0 \in Filesystems : FsInit(fs0)
    /\ PropsInit

\* what the routine does for the two callers that share an output path
SharedReturns(v) ==
    CASE v \in {"Roc", "Det"} ->
            {SampleReturn(v), Returned(<< <<1>>, <<1>>, <<0>> >>), Raised("ValueError")}
      [] v = "PrecisionRecall" ->
            {SampleReturn(v), Returned(<< <<1>>, <<0>>, << >> >>), Raised("ValueError")}
      [] v = "Calibration" ->
            {SampleReturn(v), Returned(<< <<1>>, <<0>> >>), Raised("ValueError")}
      [] v = "ConfusionMatrix" -> {NoRoutine}

SharedVals(v) ==
    IF v = "ConfusionMatrix"
    THEN {SampleVal(v), << << <<"int", 1>> >>, << <<"str", "1">> >> >>}
    ELSE {CurveVal}

\* two adapters whose names resolve to one output path, their callers running
\* in any interleaving
InitShared ==
    /\ LogOff
    /\ \E va \in Variants, vb \in Variants, nb \in {PlainName, PlainName \o JsonSuffix} :
         \E ra \in SharedReturns(va), rb \in SharedReturns(vb),
            la \in SharedVals(va), lb \in SharedVals(vb) :
            AdaptersInit(Callers,
                [c \in Callers |->
                    IF c = "A" THEN Adapter(va, PlainName, {}, la, {}, ra)
                    ELSE Adapter(vb, nb, {}, lb, {}, rb)])
    /\ \E fs0 \in Filesystems : FsInit(fs0)
    /\ PropsInit

\* two adapters of one class, each constructed with or without the flag
InitProps ==
    /\ LogOff
    /\ \E v \in Variants, ka \in CtorKwargs, kb \in CtorKwargs :
         AdaptersInit(Callers,
             [c \in Callers |->
                 Adapter(v, PlainName, IF c = "A" THEN ka ELSE kb,
                         SampleVal(v), {}, SampleReturn(v))])
    /\ FsInit([dirs |-> {}, files |-> NoFiles])
    /\ PropsInit

----------------------------------------------------------------------------
(* Specifications *)

NextCouldLog == CouldLog

NextPath ==
    \E c \in Callers :
        \/ Construct(c)
        \/ CallRoutine(c)
        \/ PairLabels(c)
        \/ OutputPath(c)
        \/ DumpJson(c)

NextCurve ==
    \E c \in Callers :
        \/ Construct(c)
        \/ CallRoutine(c)
        \/ RoutineRaises(c)
        \/ OutputPath(c)
        \/ DumpJson(c)

NextConfusion ==
    \E c \in Callers :
        \/ Construct(c)
        \/ PairLabels(c)
        \/ OutputPath(c)
        \/ DumpJson(c)

NextShared ==
    \E c \in Callers :
        \/ Construct(c)
        \/ CallRoutine(c)
        \/ RoutineRaises(c)
        \/ PairLabels(c)
        \/ OutputPath(c)
        \/ DumpJson(c)

NextProps ==
    \E c \in Callers :
        \/ Construct(c)
        \/ GetProperties(c)
        \/ MutateSet(c)
        \/ MutateDel(c)

SpecCouldLog == InitCouldLog /\ [][NextCouldLog]_vars
SpecPath == InitPath /\ [][NextPath]_vars
SpecCurve == InitCurve /\ [][NextCurve]_vars
SpecConfusion == InitConfusion /\ [][NextConfusion]_vars
SpecShared == InitShared /\ [][NextShared]_vars
SpecProps == InitProps /\ [][NextProps]_vars

----------------------------------------------------------------------------
(* Claims *)

Constructed(c) == pc[c] \notin {"off", "new"}
Dumped(c) == pc[c] = "done"

\* the document at the path adapter c wrote
Written(c) == files[Resolve(path[c])]

\* the top-level key and the record fields of each curve variant, in the order
\* of the arrays its routine returns
KeyOf(v) ==
    CASE v = "Roc" -> "roc"
      [] v = "PrecisionRecall" -> "precision_recall"
      [] v = "Det" -> "det"
      [] v = "Calibration" -> "calibration"

FieldsOf(v) ==
    CASE v = "Roc" -> <<"fpr", "tpr", "threshold">>
      [] v = "PrecisionRecall" -> <<"precision", "recall", "threshold">>
      [] v = "Det" -> <<"fpr", "fnr", "threshold">>
      [] v = "Calibration" -> <<"prob_true", "prob_pred">>

RowsOf(c) == Written(c).members[KeyOf(variant[c])]

ShortestLen(arrays) ==
    CHOOSE n \in {Len(arrays[k]) : k \in DOMAIN arrays} :
        \A k \in DOMAIN arrays : n <= Len(arrays[k])

\* C1 as stated: after a curve variant's dump the file holds as many records as
\* every returned array has elements, and record i holds element i of each array.
C1_OneRecordPerElement ==
    \A c \in Callers :
        (Dumped(c) /\ variant[c] \in Curves) =>
            \A k \in DOMAIN ret[c].arrays :
                /\ Len(RowsOf(c)) = Len(ret[c].arrays[k])
                /\ \A i \in DOMAIN ret[c].arrays[k] :
                      RowsOf(c)[i][FieldsOf(variant[c])[k]] = ret[c].arrays[k][i]

\* C1 amended: after a curve variant's dump the file holds as many records as
\* the shortest returned array has elements, record i holds element i of each
\* array, and for Roc, Det and Calibration that is every returned element.
C1_OneRecordPerShortest ==
    \A c \in Callers :
        (Dumped(c) /\ variant[c] \in Curves) =>
            /\ Len(RowsOf(c)) = ShortestLen(ret[c].arrays)
            /\ \A k \in DOMAIN ret[c].arrays : \A i \in DOMAIN RowsOf(c) :
                  RowsOf(c)[i][FieldsOf(variant[c])[k]] = ret[c].arrays[k][i]
            /\ variant[c] # "PrecisionRecall" =>
                  \A k \in DOMAIN ret[c].arrays : Len(ret[c].arrays[k]) = Len(RowsOf(c))

\* a PrecisionRecall dump whose file has fewer records than precision has elements
C1_Witness ==
    /\ Dumped("A")
    /\ variant["A"] = "PrecisionRecall"
    /\ Len(RowsOf("A")) = 2
    /\ Len(ret["A"].arrays[1]) = 3
    /\ RowsOf("A")[2].precision # RowsOf("A")[1].precision

\* C2: could_log answers True exactly for a tuple of two elements, False for
\* every other value, and never raises.
C2_CouldLogIffPair ==
    logged \notin {"off", "pending"} =>
        /\ logged \in {"True", "False"}
        /\ logged = "True" <=> (arg.type = "tuple" /\ Len(arg.items) = 2)

\* could_log has answered True for a 2-tuple
C2_Witness == logged = "True" /\ arg.type = "tuple" /\ Len(arg.items) = 2

\* the name with one trailing ".json" removed, if it ends in one
RemoveSuffix(s) ==
    LET k == Len(s) - Len(JsonSuffix)
    IN  IF k >= 0 /\ SubSeq(s, k + 1, Len(s)) = JsonSuffix THEN SubSeq(s, 1, k) ELSE s

\* C3 as stated: the adapter's name is the constructor's name without a
\* trailing ".json", and otherwise the constructor's name unchanged.
C3_TrailingExtensionOnly ==
    \A c \in Callers : Constructed(c) => name[c] = RemoveSuffix(ctor[c].name)

\* <output_folder>/<subfolder> of the adapter's constructor arguments
Base(c) == TrueDiv(Path(ctor[c].output_folder), subfolder)

\* C5 as stated: the path dump wrote to lies under <output_folder>/<subfolder>/,
\* is <output_folder>/<subfolder>/<name>.json, and its parent directory exists.
C5_PathUnderSubfolder ==
    \A c \in Callers :
        Dumped(c) =>
            /\ Resolve(path[c]) \in DOMAIN files
            /\ Under(path[c], Base(c))
            /\ path[c] = Path(PathStr(Base(c)) \o <<"/">> \o name[c] \o JsonSuffix)
            /\ IsDir(Parent(path[c]), dirs)

\* C6: a ConfusionMatrix dump of two label sequences of one length n writes a
\* bare array of n records, record i being {actual: str(val[0][i]), predicted:
\* str(val[1][i])}, whatever keyword arguments dump was given.
C6_ConfusionRecords ==
    \A c \in Callers :
        (Dumped(c) /\ variant[c] = "ConfusionMatrix" /\ Len(val[c][1]) = Len(val[c][2])) =>
            /\ Written(c).json = "array"
            /\ Len(Written(c).items) = Len(val[c][1])
            /\ \A i \in DOMAIN val[c][1] :
                  Written(c).items[i] =
                      [actual |-> Str(val[c][1][i]), predicted |-> Str(val[c][2][i])]

\* a ConfusionMatrix dump, given keyword arguments, of an int and a str label
\* that print alike
C6_Witness ==
    /\ Dumped("A")
    /\ variant["A"] = "ConfusionMatrix"
    /\ kwargs["A"] # {}
    /\ val["A"] = << << <<"int", 1>>, <<"str", "cat">> >>,
                     << <<"str", "1">>, <<"str", "cat">> >> >>
    /\ Written("A").items = << [actual |-> "1", predicted |-> "1"],
                               [actual |-> "cat", predicted |-> "cat"] >>

\* C7: a Roc, PrecisionRecall or Det dump writes an object with the variant's
\* one top-level key, holding as many records as the routine returned
\* thresholds, each record with exactly the variant's three fields.
C7_KeyAndFields ==
    \A c \in Callers :
        (Dumped(c) /\ variant[c] \in {"Roc", "PrecisionRecall", "Det"}) =>
            /\ Written(c).json = "object"
            /\ DOMAIN Written(c).members = {KeyOf(variant[c])}
            /\ Len(RowsOf(c)) = Len(ret[c].arrays[3])
            /\ \A i \in DOMAIN RowsOf(c) :
                  DOMAIN RowsOf(c)[i] =
                      {FieldsOf(variant[c])[k] : k \in DOMAIN FieldsOf(variant[c])}

\* a Roc dump of two threshold points is in the file
C7_Witness ==
    /\ Dumped("A")
    /\ variant["A"] = "Roc"
    /\ Len(ret["A"].arrays[3]) = 2
    /\ Len(RowsOf("A")) = 2

\* the records adapter c's dump builds from its own input
OwnDocument(c) ==
    Json(IF variant[c] = "ConfusionMatrix" THEN ConfusionMatrix_cm(val[c], kwargs[c])
         ELSE CurveRecords(variant[c], ret[c].arrays))

\* C9: a dump makes directories at most once and writes at most once, and a
\* file holds exactly the records of the dump whose write completed last (or,
\* never written, what it held before): nothing appended, nothing merged.
C9_LastWriterWins ==
    /\ \A c \in Callers : mkdirs[c] <= 1 /\ writes[c] <= 1
    /\ \A p \in DOMAIN files :
          IF p \in DOMAIN lastWriter THEN files[p] = OwnDocument(lastWriter[p])
          ELSE p \in DOMAIN pre.files /\ files[p] = pre.files[p]

\* both callers have dumped to one path that held an earlier file; the file is
\* the last writer's document, which differs from the other caller's
C9_Witness ==
    /\ Dumped("A") /\ Dumped("B")
    /\ ctor["A"].name # ctor["B"].name
    /\ path["A"] = path["B"]
    /\ Resolve(path["A"]) \in DOMAIN pre.files
    /\ lastWriter[Resolve(path["A"])] = "A"
    /\ OwnDocument("A") # OwnDocument("B")
    /\ Written("A") = OwnDocument("A")

\* C10: when the external routine raises, its error is what reaches the caller,
\* and the filesystem is as it was: no directory made, no file written.
C10_RaiseLeavesFilesystem ==
    \A c \in Callers :
        (pc[c] = "raised" /\ ret[c].kind = "raise") =>
            /\ err[c] = ret[c].error
            /\ dirs = pre.dirs
            /\ files = pre.files
            /\ mkdirs[c] = 0 /\ writes[c] = 0

\* the routine raised in a dump that began with no output directory
C10_Witness ==
    /\ pc["A"] = "raised"
    /\ ret["A"].kind = "raise"
    /\ err["A"] = "ValueError"
    /\ pre.dirs = {}
    /\ dirs = {}

\* the template a ConfusionMatrix adapter answers with, by its constructor flag
TemplateFor(c) ==
    IF Get(ctor[c].kwargs, "normalized") = "True" THEN "confusion_normalized"
    ELSE "confusion"

\* C4: whatever callers did to the dictionaries they were given, each class's
\* DEFAULT_PROPERTIES is as the class statement left it, and the latest
\* get_properties answer is those defaults, but for ConfusionMatrix's template.
C4_FreshCopy ==
    /\ defaults = DEFAULT_PROPERTIES
    /\ \A c \in Callers :
          lastProps[c] # << >> =>
              /\ DOMAIN lastProps[c][1] = DOMAIN DEFAULT_PROPERTIES[variant[c]]
              /\ \A k \in DOMAIN lastProps[c][1] :
                    \/ lastProps[c][1][k] = DEFAULT_PROPERTIES[variant[c]][k]
                    \/ /\ variant[c] = "ConfusionMatrix"
                       /\ k = "template"
                       /\ lastProps[c][1][k] = "confusion_normalized"

\* a caller changed a dictionary it was given and holds a second, intact one
C4_Witness ==
    /\ nmut > 0
    /\ Len(held["A"]) = 2
    /\ heap[held["A"][1][2]] # DEFAULT_PROPERTIES[variant["A"]]
    /\ "template" \notin DOMAIN heap[held["A"][1][2]]
    /\ lastProps["A"] = <<heap[held["A"][2][2]]>>
    /\ lastProps["A"] = <<DEFAULT_PROPERTIES[variant["A"]]>>

\* C8: a ConfusionMatrix adapter keeps the flag it was constructed with, and
\* get_properties answers template "confusion_normalized" when the flag was
\* true, "confusion" when it was false or absent, the other items as the defaults.
C8_TemplateByFlag ==
    \A c \in Callers :
        (Constructed(c) /\ variant[c] = "ConfusionMatrix") =>
            /\ Truthy(normalized[c]) <=> Get(ctor[c].kwargs, "normalized") = "True"
            /\ lastProps[c] # << >> =>
                  lastProps[c][1] =
                      [ConfusionMatrix_DEFAULT_PROPERTIES EXCEPT !.template = TemplateFor(c)]

\* one adapter constructed with the flag and one without, each asked
C8_Witness ==
    /\ variant["A"] = "ConfusionMatrix"
    /\ ctor["A"].kwargs = {<<"normalized", "True">>}
    /\ ctor["B"].kwargs = {}
    /\ lastProps["A"] # << >> /\ lastProps["A"][1].template = "confusion_normalized"
    /\ lastProps["B"] # << >> /\ lastProps["B"][1].template = "confusion"

====
